---- MODULE Spec2Model ----
(***************************************************************************)
(* libhdfspp logging: LogManager (global lock + active LoggerInterface),   *)
(* the LoggerInterface filter, the StderrLogger and CForwardingLogger      *)
(* sinks, and the LogMessageObj builder whose destructor dispatches.       *)
(***************************************************************************)
EXTENDS Integers, Sequences, FiniteSets, TLC

(* ------------------------------------------------------------------ *)
(* enum LogLevel, enum LogSourceComponent                               *)
(* ------------------------------------------------------------------ *)
kTrace == 0
kDebug == 1
kInfo == 2
kWarning == 3
kError == 4
LogLevel == {kTrace, kDebug, kInfo, kWarning, kError}

kUnknown == 1
kRPC == 2
kBlockReader == 4
kFileHandle == 8
kFileSystem == 16
LogSourceComponent == {kUnknown, kRPC, kBlockReader, kFileHandle, kFileSystem}

(* ------------------------------------------------------------------ *)
(* Bounds of the model                                                  *)
(* ------------------------------------------------------------------ *)
\* log statements executed in one behaviour
MaxMsgs == 2
\* LoggerInterface objects constructed in one behaviour (the default one included)
MaxSinks == 2
\* LogManager::SetLogLevel calls in one behaviour (each one prints a line)
MaxSetLevel == 1
\* LogManager::SetLogLevel calls in one behaviour of the test Levels
MaxLevelChanges == 2
\* values the call site appends to one message (after the macro's own three)
MaxAppends == 2

Threads == {1, 2}
NoThread == 0
NULL == 0

(* ------------------------------------------------------------------ *)
(* uint32_t as the set of its one-bits (bit positions 0..31)            *)
(* ------------------------------------------------------------------ *)
WordBits == 32
BitPositions == 0 .. (WordBits - 1)

RECURSIVE Pow2(_)
Pow2(i) == IF i = 0 THEN 1 ELSE 2 * Pow2(i - 1)

\* the one-bits of a small non-negative integer (an enumerator)
BitsOf(n) == {i \in 0 .. 30 : (n \div Pow2(i)) % 2 = 1}
BitAnd(a, b) == a \cap b
BitOr(a, b) == a \cup b
\* ~c on an int, converted to uint32_t by the compound assignment
BitNot(a) == BitPositions \ a
\* 0xFFFFFFFF
AllBits == BitPositions

(* ------------------------------------------------------------------ *)
(* Text formatting (std::ostream operator<<)                            *)
(* ------------------------------------------------------------------ *)
DecDigit(d) == CASE d = 0 -> "0" [] d = 1 -> "1" [] d = 2 -> "2" [] d = 3 -> "3"
                 [] d = 4 -> "4" [] d = 5 -> "5" [] d = 6 -> "6" [] d = 7 -> "7"
                 [] d = 8 -> "8" [] d = 9 -> "9"
HexDigit(d) == CASE d < 10 -> DecDigit(d) [] d = 10 -> "a" [] d = 11 -> "b"
                 [] d = 12 -> "c" [] d = 13 -> "d" [] d = 14 -> "e" [] d = 15 -> "f"

RECURSIVE DecNat(_)
DecNat(n) == IF n < 10 THEN DecDigit(n) ELSE DecNat(n \div 10) \o DecDigit(n % 10)
\* operator<<(int32_t), operator<<(int64_t)
FormatSigned(n) == IF n < 0 THEN "-" \o DecNat(0 - n) ELSE DecNat(n)
\* operator<<(uint32_t), operator<<(uint64_t)
FormatUnsigned(n) == DecNat(n)

RECURSIVE HexNat(_)
HexNat(n) == IF n < 16 THEN HexDigit(n) ELSE HexNat(n \div 16) \o HexDigit(n % 16)
\* operator<<(const void*): hex with showbase, as libstdc++ prints it
FormatPointer(p) == IF p = 0 THEN "0" ELSE "0x" \o HexNat(p)

kLevelStrings == <<"[TRACE ]", "[DEBUG ]", "[INFO  ]", "[WARN  ]", "[ERROR ]">>
kComponentStrings == <<"[Unknown     ]", "[RPC         ]", "[BlockReader ]",
                       "[FileHandle  ]", "[FileSystem  ]">>

(* ------------------------------------------------------------------ *)
(* State                                                                *)
(* ------------------------------------------------------------------ *)
VARIABLES
  logger_impl_,  \* LogManager::logger_impl_: a sink id, or NULL
  impl_lock_,    \* LogManager::impl_lock_: the thread that holds it, or NoThread
  sinks,         \* the LoggerInterface objects ever constructed, by id
  pc,            \* where each thread is
  msg,           \* the LogMessageObj each thread has on its stack
  op,            \* the arguments and locals of the manager call each thread is in
  cerr,          \* the lines written to std::cerr
  log_state,     \* what the callback process_log_msg has received
  calls,         \* per message: LogManager::ShouldLog and LogManager::Write calls
  nSetLevel,     \* LogManager::SetLogLevel calls made so far
  terminated,    \* std::terminate has been called
  heap           \* the LogData records and texts of the host program

vars == <<logger_impl_, impl_lock_, sinks, pc, msg, op, cerr, log_state, calls,
          nSetLevel, terminated, heap>>

NoMsg == [id |-> 0]
NoOp == [name |-> "none"]
\* a destroyed LoggerInterface: its storage is freed
Destroyed == [alive |-> FALSE]

(* ------------------------------------------------------------------ *)
(* LoggerInterface and its two implementations                          *)
(* ------------------------------------------------------------------ *)
\* the callbacks a host program registers with SetCallback; NULL clears the hook
NullCallback == "NULL"
process_log_msg == "process_log_msg"
\* a host callback that itself issues a log statement
logging_callback == "logging_callback"

\* LoggerInterface(): every component enabled, threshold kTrace
NewLoggerInterface(kind) ==
  [alive |-> TRUE, kind |-> kind,
   component_mask_ |-> AllBits, level_threshold_ |-> kTrace,
   show_timestamp_ |-> FALSE, show_level_ |-> FALSE,
   show_thread_ |-> FALSE, show_component_ |-> FALSE,
   callback_ |-> NullCallback]

\* StderrLogger(): all four fields shown
NewStderrLogger ==
  [NewLoggerInterface("StderrLogger") EXCEPT
     !.show_timestamp_ = TRUE, !.show_level_ = TRUE,
     !.show_thread_ = TRUE, !.show_component_ = TRUE]

\* CForwardingLogger(): no callback
NewCForwardingLogger == NewLoggerInterface("CForwardingLogger")

\* CForwardingLogger::SetCallback
SetCallback(s, callback) == [s EXCEPT !.callback_ = callback]

\* StderrLogger::set_show_timestamp / _level / _thread / _component
set_show_timestamp(s, show) == [s EXCEPT !.show_timestamp_ = show]
set_show_level(s, show) == [s EXCEPT !.show_level_ = show]
set_show_thread(s, show) == [s EXCEPT !.show_thread_ = show]
set_show_component(s, show) == [s EXCEPT !.show_component_ = show]

\* (mutant) the mask is tested for any bit, not for the component's bit
LoggerInterface_ShouldLog_anybit(s, level, component) ==
  IF level < s.level_threshold_
    THEN FALSE
    ELSE IF s.component_mask_ = {}
           THEN FALSE
           ELSE TRUE

\* (mutant) the threshold itself is rejected
LoggerInterface_ShouldLog_le(s, level, component) ==
  IF level <= s.level_threshold_
    THEN FALSE
    ELSE IF BitAnd(BitsOf(component), s.component_mask_) = {}
           THEN FALSE
           ELSE TRUE

\* LoggerInterface::ShouldLog
LoggerInterface_ShouldLog(s, level, component) ==
  IF level < s.level_threshold_
    THEN FALSE
    ELSE IF BitAnd(BitsOf(component), s.component_mask_) = {}
           THEN FALSE
           ELSE TRUE

\* (mutant) component_mask_ = c
EnableLoggingForComponent_assign(s, c) ==
  [s EXCEPT !.component_mask_ = BitsOf(c)]

\* LoggerInterface::EnableLoggingForComponent
EnableLoggingForComponent(s, c) ==
  [s EXCEPT !.component_mask_ = BitOr(@, BitsOf(c))]

\* (mutant) component_mask_ ^= c
DisableLoggingForComponent_toggle(s, c) ==
  [s EXCEPT !.component_mask_ = (@ \ BitsOf(c)) \cup (BitsOf(c) \ @)]

\* LoggerInterface::DisableLoggingForComponent
DisableLoggingForComponent(s, c) ==
  [s EXCEPT !.component_mask_ = BitAnd(@, BitNot(BitsOf(c)))]

\* the line LoggerInterface::SetLogLevel prints
SetLogLevelTrace == "SETLOGLEVEL_CALLED_"

\* (mutant) the threshold is only ever raised
LoggerInterface_SetLogLevel_raise(s, level) ==
  [s EXCEPT !.level_threshold_ = IF level > @ THEN level ELSE @]

\* LoggerInterface::SetLogLevel: the new state of the sink
LoggerInterface_SetLogLevel(s, level) == [s EXCEPT !.level_threshold_ = level]

(* ------------------------------------------------------------------ *)
(* LogMessageObj                                                        *)
(* ------------------------------------------------------------------ *)
\* LogMessageObj(l, component), with the result of LogManager::ShouldLog
\* still to come; macro says whether the LogMessage(LEVEL, COMPONENT)
\* form is used, this_ is the address the macro prints, args are the values
\* the call site appends itself
NewLogMessageObj(id, l, component, macro, this_) ==
  [id |-> id, level_ |-> l, component_ |-> component,
   worth_reporting_ |-> FALSE, msg_buffer_ |-> "",
   macro |-> macro, this_ |-> this_, args |-> <<>>]

\* the values operator<< takes
CStr(s) == [kind |-> "const char*", null |-> FALSE, addr |-> 0, s |-> s, b |-> FALSE, n |-> 0]
NullCStr == [kind |-> "const char*", null |-> TRUE, addr |-> 0, s |-> "", b |-> FALSE, n |-> 0]
Str(s) == [kind |-> "const std::string&", null |-> FALSE, addr |-> 0, s |-> s, b |-> FALSE, n |-> 0]
StrPtr(addr, s) == [kind |-> "const std::string*", null |-> FALSE, addr |-> addr, s |-> s, b |-> FALSE, n |-> 0]
NullStrPtr == [kind |-> "const std::string*", null |-> TRUE, addr |-> 0, s |-> "", b |-> FALSE, n |-> 0]
Bool(b) == [kind |-> "bool", null |-> FALSE, addr |-> 0, s |-> "", b |-> b, n |-> 0]
Int32(n) == [kind |-> "int32_t", null |-> FALSE, addr |-> 0, s |-> "", b |-> FALSE, n |-> n]
UInt32(n) == [kind |-> "uint32_t", null |-> FALSE, addr |-> 0, s |-> "", b |-> FALSE, n |-> n]
Int64(n) == [kind |-> "int64_t", null |-> FALSE, addr |-> 0, s |-> "", b |-> FALSE, n |-> n]
UInt64(n) == [kind |-> "uint64_t", null |-> FALSE, addr |-> 0, s |-> "", b |-> FALSE, n |-> n]
VoidPtr(addr) == [kind |-> "void*", null |-> (addr = 0), addr |-> addr, s |-> "", b |-> FALSE, n |-> 0]

\* operator<<(const std::string *str): streams the pointer itself
Append_string_ptr(m, v) ==
  IF ~v.null /\ m.worth_reporting_
    THEN [m EXCEPT !.msg_buffer_ = @ \o FormatPointer(v.addr)]
    ELSE m

\* operator<<(const std::string& str)
Append_string(m, v) ==
  IF m.worth_reporting_ THEN [m EXCEPT !.msg_buffer_ = @ \o v.s] ELSE m

\* (mutant) operator<<(const char*) does not look at worth_reporting_
Append_cstr_unchecked(m, v) ==
  IF ~v.null THEN [m EXCEPT !.msg_buffer_ = @ \o v.s] ELSE m

\* operator<<(const char *str)
Append_cstr(m, v) ==
  IF ~v.null /\ m.worth_reporting_
    THEN [m EXCEPT !.msg_buffer_ = @ \o v.s]
    ELSE m

\* operator<<(bool val)
Append_bool(m, v) ==
  IF m.worth_reporting_
    THEN IF v.b THEN [m EXCEPT !.msg_buffer_ = @ \o "true"]
                ELSE [m EXCEPT !.msg_buffer_ = @ \o "false"]
    ELSE m

\* operator<<(int32_t val), operator<<(int64_t val)
Append_signed(m, v) ==
  IF m.worth_reporting_ THEN [m EXCEPT !.msg_buffer_ = @ \o FormatSigned(v.n)] ELSE m

\* operator<<(uint32_t val), operator<<(uint64_t val)
Append_unsigned(m, v) ==
  IF m.worth_reporting_ THEN [m EXCEPT !.msg_buffer_ = @ \o FormatUnsigned(v.n)] ELSE m

\* operator<<(void *ptr)
Append_void_ptr(m, v) ==
  IF m.worth_reporting_ THEN [m EXCEPT !.msg_buffer_ = @ \o FormatPointer(v.addr)] ELSE m

\* overload resolution of operator<<
Stream(m, v) ==
  CASE v.kind = "const std::string*" -> Append_string_ptr(m, v)
    [] v.kind = "const std::string&" -> Append_string(m, v)
    [] v.kind = "const char*" -> Append_cstr(m, v)
    [] v.kind = "bool" -> Append_bool(m, v)
    [] v.kind \in {"int32_t", "int64_t"} -> Append_signed(m, v)
    [] v.kind \in {"uint32_t", "uint64_t"} -> Append_unsigned(m, v)
    [] v.kind = "void*" -> Append_void_ptr(m, v)

\* the macro LogMessage(LEVEL, COMPONENT): << "[this=" << ((void*)this) << "] "
MacroPrefix(m) ==
  Stream(Stream(Stream(m, CStr("[this=")), VoidPtr(m.this_)), CStr("] "))

\* LogMessageObj::MsgString
MsgString(m) == IF m.worth_reporting_ THEN m.msg_buffer_ ELSE ""

\* LogMessageObj::level_string
level_string(m) == kLevelStrings[m.level_ + 1]

\* LogMessageObj::component_string
component_string(m) ==
  CASE m.component_ = kRPC -> kComponentStrings[2]
    [] m.component_ = kBlockReader -> kComponentStrings[3]
    [] m.component_ = kFileHandle -> kComponentStrings[4]
    [] m.component_ = kFileSystem -> kComponentStrings[5]
    [] OTHER -> kComponentStrings[1]

(* ------------------------------------------------------------------ *)
(* The sinks' Write                                                     *)
(* ------------------------------------------------------------------ *)
\* what std::asctime(std::localtime(&current_time)) returns
AscTime == "Mon Nov  2 05:45:00 2026\n"

\* the timestamp field: asctime's trailing newline is nulled out
TimestampField(timestr) ==
  "[" \o (IF Len(timestr) >= 2 THEN SubSeq(timestr, 1, Len(timestr) - 1) ELSE timestr) \o "]"

\* (mutant) StderrLogger::Write does not test is_worth_reporting()
StderrLogger_Write_unchecked(s, m, t) ==
  <<(IF s.show_level_ THEN level_string(m) ELSE "")
    \o (IF s.show_component_ THEN component_string(m) ELSE "")
    \o (IF s.show_timestamp_ THEN TimestampField(AscTime) ELSE "")
    \o (IF s.show_component_ THEN "[Thread id = " \o DecNat(t) \o "]" ELSE "")
    \o "    " \o MsgString(m)>>

\* StderrLogger::Write: the lines it sends to std::cerr for m, on thread t
StderrLogger_Write(s, m, t) ==
  IF ~m.worth_reporting_
    THEN <<>>
    ELSE <<(IF s.show_level_ THEN level_string(m) ELSE "")
           \o (IF s.show_component_ THEN component_string(m) ELSE "")
           \o (IF s.show_timestamp_ THEN TimestampField(AscTime) ELSE "")
           \o (IF s.show_component_ THEN "[Thread id = " \o DecNat(t) \o "]" ELSE "")
           \o "    " \o MsgString(m)>>

\* (mutant) CForwardingLogger::Write consults the sink's filter again
CForwardingLogger_Write_refilter(s, m) ==
  IF ~m.worth_reporting_ \/ ~LoggerInterface_ShouldLog(s, m.level_, m.component_)
    THEN <<>>
    ELSE IF s.callback_ = NullCallback
      THEN <<>>
      ELSE <<[level |-> m.level_, component |-> m.component_, msg |-> MsgString(m)]>>

\* (mutant) CForwardingLogger::Write calls callback_ without testing it
CForwardingLogger_Write_nullcall(s, m) ==
  IF ~m.worth_reporting_
    THEN <<>>
    ELSE <<[level |-> m.level_, component |-> m.component_, msg |-> MsgString(m)]>>

\* CForwardingLogger::Write: the LogData records it passes to callback_
CForwardingLogger_Write(s, m) ==
  IF ~m.worth_reporting_
    THEN <<>>
    ELSE IF s.callback_ = NullCallback
      THEN <<>>
      ELSE <<[level |-> m.level_, component |-> m.component_, msg |-> MsgString(m)]>>

\* log_state::reset (tests/logging_test.cc)
log_state_reset ==
  [trace_count |-> 0, debug_count |-> 0, info_count |-> 0,
   warning_count |-> 0, error_count |-> 0,
   origin_unknown |-> 0, origin_rpc |-> 0, origin_blockreader |-> 0,
   origin_filehandle |-> 0, origin_filesystem |-> 0,
   msg |-> ""]

\* process_log_msg (tests/logging_test.cc): data->msg is never null here
process_log_msg_fn(st, data) ==
  LET s1 == [st EXCEPT !.msg = data.msg]
      s2 == CASE data.level = kTrace -> [s1 EXCEPT !.trace_count = @ + 1]
              [] data.level = kDebug -> [s1 EXCEPT !.debug_count = @ + 1]
              [] data.level = kInfo -> [s1 EXCEPT !.info_count = @ + 1]
              [] data.level = kWarning -> [s1 EXCEPT !.warning_count = @ + 1]
              [] data.level = kError -> [s1 EXCEPT !.error_count = @ + 1]
  IN  CASE data.component = kUnknown -> [s2 EXCEPT !.origin_unknown = @ + 1]
        [] data.component = kRPC -> [s2 EXCEPT !.origin_rpc = @ + 1]
        [] data.component = kBlockReader -> [s2 EXCEPT !.origin_blockreader = @ + 1]
        [] data.component = kFileHandle -> [s2 EXCEPT !.origin_filehandle = @ + 1]
        [] data.component = kFileSystem -> [s2 EXCEPT !.origin_filesystem = @ + 1]

(* ------------------------------------------------------------------ *)
(* LogData in the host's memory: CopyLogData, FreeLogData               *)
(* ------------------------------------------------------------------ *)
\* LogData objects the host program holds at one time
MaxRecords == 3

\* an address that is no block of the allocator
WildAddr == 0 - 1

\* a block that has been given back to the allocator
Freed == [alive |-> FALSE]

\* the last call of CopyLogData: its argument, its result, and whether an
\* allocation it made failed
NoCopy == [called |-> FALSE, orig |-> NULL, result |-> NULL, failed |-> FALSE]

\* recs: the LogData objects by address; strs: the character arrays by address;
\* returned: the addresses CopyLogData has handed out; frees: FreeLogData calls;
\* freed: the argument of the last of them
NoHeap ==
  [recs |-> <<>>, strs |-> <<>>, returned |-> {}, frees |-> 0, freed |-> NULL,
   last |-> NoCopy]

\* struct LogData { level, component, msg }
LogData(level, component, text) ==
  [alive |-> TRUE, level |-> level, component |-> component, msg |-> text]

\* a character array holding s
CharArray(s) == [alive |-> TRUE, s |-> s]

\* p points to a live character array
ValidText(h, p) == p \in DOMAIN h.strs /\ h.strs[p].alive

\* a LogData the caller may pass: live, its msg null or a live C string
ValidLogData(h, d) ==
  /\ d \in DOMAIN h.recs
  /\ h.recs[d].alive
  /\ h.recs[d].msg = NULL \/ ValidText(h, h.recs[d].msg)

\* what a member of a malloc'ed object holds before it is assigned
Indeterminate(h) == {NULL, WildAddr} \cup DOMAIN h.strs

\* malloc(sizeof(LogData)): null, or the address of a new object
Malloc(h) == {NULL, Len(h.recs) + 1}

\* strdup(orig->msg): null, or the address of a new character array
Strdup(h) == {NULL, Len(h.strs) + 1}

\* CForwardingLogger::CopyLogData(orig): the heap afterwards; copy is what
\* malloc returned, garbage what the new object's msg held, dup what strdup
\* returned
CopyLogData_heap(h, orig, copy, garbage, dup) ==
  IF orig = NULL
    THEN [h EXCEPT !.last = [called |-> TRUE, orig |-> orig, result |-> NULL,
                             failed |-> FALSE]]
    ELSE IF copy = NULL
      THEN [h EXCEPT !.last = [called |-> TRUE, orig |-> orig, result |-> NULL,
                               failed |-> TRUE]]
      ELSE LET text == h.recs[orig].msg
           IN  [h EXCEPT
                  !.recs = Append(@, LogData(h.recs[orig].level, h.recs[orig].component,
                                             IF text # NULL THEN dup ELSE garbage)),
                  !.strs = IF text # NULL /\ dup # NULL
                             THEN Append(@, CharArray(h.strs[text].s))
                             ELSE @,
                  !.returned = @ \cup {copy},
                  !.last = [called |-> TRUE, orig |-> orig, result |-> copy,
                            failed |-> (text # NULL /\ dup = NULL)]]

\* free(data->msg), memset(data, 0, sizeof(LogData)), free(data)
FreeLogData_heap(h, data) ==
  LET p == h.recs[data].msg
  IN  [h EXCEPT !.recs[data] = Freed,
                !.strs = IF ValidText(h, p) THEN [@ EXCEPT ![p] = Freed] ELSE @]

\* CForwardingLogger::CopyLogData
CopyLogData(orig) ==
  /\ ~terminated
  /\ Len(heap.recs) < MaxRecords
  /\ orig = NULL \/ ValidLogData(heap, orig)
  /\ \E copy \in Malloc(heap), garbage \in Indeterminate(heap), dup \in Strdup(heap) :
       heap' = CopyLogData_heap(heap, orig, copy, garbage, dup)
  /\ UNCHANGED <<logger_impl_, impl_lock_, sinks, pc, msg, op, cerr, log_state, calls,
                 nSetLevel, terminated>>

\* CForwardingLogger::FreeLogData, on null or on a LogData that CopyLogData
\* returned; free() of an address that is no live block aborts or goes unnoticed
FreeLogData(data) ==
  /\ ~terminated
  /\ heap.frees < MaxRecords
  /\ data = NULL \/ (data \in heap.returned /\ heap.recs[data].alive)
  /\ IF data = NULL
       THEN /\ heap' = [heap EXCEPT !.frees = @ + 1, !.freed = data]
            /\ UNCHANGED terminated
       ELSE IF heap.recs[data].msg = NULL \/ ValidText(heap, heap.recs[data].msg)
         THEN /\ heap' = [FreeLogData_heap(heap, data) EXCEPT !.frees = @ + 1,
                                                               !.freed = data]
              /\ UNCHANGED terminated
         ELSE \E abort \in BOOLEAN :
                /\ terminated' = abort
                /\ heap' = IF abort
                             THEN [heap EXCEPT !.frees = @ + 1, !.freed = data]
                             ELSE [FreeLogData_heap(heap, data) EXCEPT !.frees = @ + 1,
                                                                       !.freed = data]
  /\ UNCHANGED <<logger_impl_, impl_lock_, sinks, pc, msg, op, cerr, log_state, calls,
                 nSetLevel>>

(* ------------------------------------------------------------------ *)
(* Initial state: static initialisation of LogManager                   *)
(* ------------------------------------------------------------------ *)
Init ==
  /\ sinks = <<NewStderrLogger>>
  /\ logger_impl_ = 1
  /\ impl_lock_ = NoThread
  /\ pc = [t \in Threads |-> "idle"]
  /\ msg = [t \in Threads |-> NoMsg]
  /\ op = [t \in Threads |-> NoOp]
  /\ cerr = <<>>
  /\ log_state = log_state_reset
  /\ calls = <<>>
  /\ nSetLevel = 0
  /\ terminated = FALSE
  /\ heap = NoHeap

(* ------------------------------------------------------------------ *)
(* GET_IMPL_LOCK: std::lock_guard<std::mutex> on impl_lock_             *)
(* ------------------------------------------------------------------ *)
\* (mutant) the manager call does not take the lock
LockFree_unguarded(t) == TRUE

\* the calling thread gets past GET_IMPL_LOCK only when nobody holds the mutex
LockFree(t) == impl_lock_ = NoThread

\* a manager call of thread t is entered: the guard is taken
Enter(t, o, next) ==
  /\ ~terminated
  /\ pc[t] = "idle"
  /\ LockFree(t)
  /\ impl_lock_' = t
  /\ op' = [op EXCEPT ![t] = o]
  /\ pc' = [pc EXCEPT ![t] = next]

\* the guard's destructor on return: unlock
Unlock == impl_lock_' = NoThread

\* reading through a LoggerInterface pointer
Deref(p) == sinks[p]

(* ------------------------------------------------------------------ *)
(* LogMessageObj: construction, operator<<, destruction                 *)
(* ------------------------------------------------------------------ *)
\* bookkeeping for one message: how often LogManager::ShouldLog and
\* LogManager::Write were called for it, how many lines or records it produced,
\* the sink that answered ShouldLog and the answer, what the active sink's
\* filter said when Write ran, and whether the message has been destroyed
NewCalls ==
  [ShouldLog |-> 0, Write |-> 0, out |-> 0, sink |-> NULL,
   filter |-> "pending", at_Write |-> "none", done |-> FALSE]

Verdict(b) == IF b THEN "accepted" ELSE "rejected"

\* (mutant) LogManager::ShouldLog without a sink answers true
NoSinkResult_true == TRUE

\* LogManager::ShouldLog without a sink: return false
NoSinkResult == FALSE

AfterCtor(m) == IF m.macro THEN "LogMessage" ELSE "operator<<"

\* LogMessageObj::LogMessageObj calls LogManager::ShouldLog(l, component)
LogMessageObj_ctor(t, l, component, macro, this_) ==
  /\ Len(calls) < MaxMsgs
  /\ Enter(t, [name |-> "ShouldLog", arg |-> NULL, impl |-> NULL], "ShouldLog")
  /\ msg' = [msg EXCEPT ![t] = NewLogMessageObj(Len(calls) + 1, l, component, macro, this_)]
  /\ calls' = Append(calls, NewCalls)
  /\ UNCHANGED <<heap, logger_impl_, sinks, cerr, log_state, nSetLevel, terminated>>

\* LogManager::ShouldLog: if(logger_impl_) ... return false
LogManager_ShouldLog(t) ==
  /\ ~terminated
  /\ pc[t] = "ShouldLog"
  /\ IF logger_impl_ # NULL
       THEN /\ op' = [op EXCEPT ![t].impl = logger_impl_]
            /\ pc' = [pc EXCEPT ![t] = "ShouldLog_impl"]
            /\ calls' = [calls EXCEPT ![msg[t].id].ShouldLog = @ + 1,
                                      ![msg[t].id].sink = logger_impl_]
            /\ UNCHANGED <<impl_lock_, msg>>
       ELSE /\ msg' = [msg EXCEPT ![t].worth_reporting_ = NoSinkResult]
            /\ calls' = [calls EXCEPT ![msg[t].id].ShouldLog = @ + 1,
                                      ![msg[t].id].sink = NULL,
                                      ![msg[t].id].filter = Verdict(NoSinkResult)]
            /\ Unlock
            /\ op' = [op EXCEPT ![t] = NoOp]
            /\ pc' = [pc EXCEPT ![t] = AfterCtor(msg[t])]
  /\ UNCHANGED <<heap, logger_impl_, sinks, cerr, log_state, nSetLevel, terminated>>

\* return logger_impl_->ShouldLog(level, source); a freed sink gives any answer
ShouldLog_impl(t) ==
  /\ ~terminated
  /\ pc[t] = "ShouldLog_impl"
  /\ \E r \in IF Deref(op[t].impl).alive
                THEN {LoggerInterface_ShouldLog(Deref(op[t].impl), msg[t].level_,
                                                msg[t].component_)}
                ELSE BOOLEAN :
       /\ msg' = [msg EXCEPT ![t].worth_reporting_ = r]
       /\ calls' = [calls EXCEPT ![msg[t].id].filter = Verdict(r)]
  /\ Unlock
  /\ op' = [op EXCEPT ![t] = NoOp]
  /\ pc' = [pc EXCEPT ![t] = AfterCtor(msg[t])]
  /\ UNCHANGED <<heap, logger_impl_, sinks, cerr, log_state, nSetLevel, terminated>>

\* the three appends of the macro LogMessage(LEVEL, COMPONENT)
LogMessage_macro(t) ==
  /\ ~terminated
  /\ pc[t] = "LogMessage"
  /\ msg' = [msg EXCEPT ![t] = MacroPrefix(@)]
  /\ pc' = [pc EXCEPT ![t] = "operator<<"]
  /\ UNCHANGED <<heap, logger_impl_, impl_lock_, sinks, op, cerr, log_state, calls,
                 nSetLevel, terminated>>

\* one operator<< of the call site
operator_shl(t, v) ==
  /\ ~terminated
  /\ pc[t] = "operator<<"
  /\ Len(msg[t].args) < MaxAppends
  /\ msg' = [msg EXCEPT ![t] = [Stream(@, v) EXCEPT !.args = Append(@, v)]]
  /\ UNCHANGED <<heap, logger_impl_, impl_lock_, sinks, pc, op, cerr, log_state, calls,
                 nSetLevel, terminated>>

\* (mutant) the destructor writes every message
DtorWrites_always(m) == TRUE

\* whether ~LogMessageObj calls LogManager::Write
DtorWrites(m) == m.worth_reporting_

\* LogMessageObj::~LogMessageObj
LogMessageObj_dtor(t) ==
  /\ ~terminated
  /\ pc[t] = "operator<<"
  /\ IF DtorWrites(msg[t])
       THEN /\ LockFree(t)
            /\ impl_lock_' = t
            /\ op' = [op EXCEPT ![t] = [name |-> "Write", arg |-> NULL, impl |-> NULL]]
            /\ pc' = [pc EXCEPT ![t] = "Write"]
            /\ calls' = [calls EXCEPT ![msg[t].id].Write = @ + 1]
            /\ UNCHANGED msg
       ELSE /\ pc' = [pc EXCEPT ![t] = "idle"]
            /\ msg' = [msg EXCEPT ![t] = NoMsg]
            /\ calls' = [calls EXCEPT ![msg[t].id].done = TRUE]
            /\ UNCHANGED <<impl_lock_, op>>
  /\ UNCHANGED <<heap, logger_impl_, sinks, cerr, log_state, nSetLevel, terminated>>

\* LogManager::Write(msg) called by the host itself, on a message that was
\* rejected at construction; the message is destroyed when the call has
\* returned, and its destructor does nothing
LogManager_Write_direct(t) ==
  /\ ~terminated
  /\ pc[t] = "operator<<"
  /\ ~msg[t].worth_reporting_
  /\ LockFree(t)
  /\ impl_lock_' = t
  /\ op' = [op EXCEPT ![t] = [name |-> "Write", arg |-> NULL, impl |-> NULL]]
  /\ pc' = [pc EXCEPT ![t] = "Write"]
  /\ calls' = [calls EXCEPT ![msg[t].id].Write = @ + 1]
  /\ UNCHANGED <<heap, logger_impl_, sinks, msg, cerr, log_state, nSetLevel, terminated>>

\* the message is gone once its destructor returns
Return_dtor(t) ==
  /\ Unlock
  /\ op' = [op EXCEPT ![t] = NoOp]
  /\ pc' = [pc EXCEPT ![t] = "idle"]
  /\ msg' = [msg EXCEPT ![t] = NoMsg]

\* LogManager::Write: if(logger_impl_) logger_impl_->Write(msg)
LogManager_Write_consults(t) ==
  /\ ~terminated
  /\ pc[t] = "Write"
  /\ IF /\ logger_impl_ # NULL
        /\ LoggerInterface_ShouldLog(Deref(logger_impl_), msg[t].level_, msg[t].component_)
       THEN /\ op' = [op EXCEPT ![t].impl = logger_impl_]
            /\ pc' = [pc EXCEPT ![t] = "Write_impl"]
            /\ UNCHANGED <<impl_lock_, msg, calls>>
       ELSE /\ Return_dtor(t)
            /\ calls' = [calls EXCEPT ![msg[t].id].done = TRUE]
  /\ UNCHANGED <<heap, logger_impl_, sinks, cerr, log_state, nSetLevel, terminated>>

LogManager_Write(t) ==
  /\ ~terminated
  /\ pc[t] = "Write"
  /\ IF logger_impl_ # NULL
       THEN /\ op' = [op EXCEPT ![t].impl = logger_impl_]
            /\ pc' = [pc EXCEPT ![t] = "Write_impl"]
            /\ UNCHANGED <<impl_lock_, msg, calls>>
       ELSE /\ Return_dtor(t)
            /\ calls' = [calls EXCEPT ![msg[t].id].done = TRUE]
  /\ UNCHANGED <<heap, logger_impl_, sinks, cerr, log_state, nSetLevel, terminated>>

\* logger_impl_->Write(msg): the virtual call, StderrLogger::Write or
\* CForwardingLogger::Write; on a freed sink it crashes or does nothing
Write_impl(t) ==
  /\ ~terminated
  /\ pc[t] = "Write_impl"
  /\ LET s == Deref(op[t].impl)
         m == msg[t]
     IN  IF ~s.alive
           THEN /\ \E crash \in BOOLEAN : terminated' = crash
                /\ Return_dtor(t)
                /\ calls' = [calls EXCEPT ![m.id].done = TRUE]
                /\ UNCHANGED <<cerr, log_state>>
           ELSE LET now == Verdict(LoggerInterface_ShouldLog(s, m.level_, m.component_))
                IN  IF s.kind = "StderrLogger"
             THEN /\ cerr' = cerr \o StderrLogger_Write(s, m, t)
                  /\ calls' = [calls EXCEPT ![m.id].out = @ + Len(StderrLogger_Write(s, m, t)),
                                            ![m.id].at_Write = now,
                                            ![m.id].done = TRUE]
                  /\ Return_dtor(t)
                  /\ UNCHANGED <<log_state, terminated>>
             ELSE LET data == CForwardingLogger_Write(s, m)
                  IN  IF data = <<>>
                        THEN /\ Return_dtor(t)
                             /\ calls' = [calls EXCEPT ![m.id].at_Write = now,
                                                       ![m.id].done = TRUE]
                             /\ UNCHANGED <<cerr, log_state, terminated>>
                        ELSE IF s.callback_ = process_log_msg
                          THEN /\ log_state' = process_log_msg_fn(log_state, data[1])
                               /\ calls' = [calls EXCEPT ![m.id].out = @ + 1,
                                                         ![m.id].at_Write = now,
                                                         ![m.id].done = TRUE]
                               /\ Return_dtor(t)
                               /\ UNCHANGED <<cerr, terminated>>
                          ELSE \* callback_(&data) runs a log statement of its own:
                               \* LogMessageObj's constructor calls
                               \* LogManager::ShouldLog, whose GET_IMPL_LOCK finds
                               \* the mutex held by this very thread
                               /\ pc' = [pc EXCEPT ![t] = "callback_ShouldLog"]
                               /\ calls' = [calls EXCEPT ![m.id].out = @ + 1,
                                                         ![m.id].at_Write = now]
                               /\ UNCHANGED <<impl_lock_, op, msg, cerr, log_state,
                                              terminated>>
  /\ UNCHANGED <<heap, logger_impl_, sinks, nSetLevel>>

\* Locking a std::mutex the thread already owns is undefined: the thread
\* blocks for ever (no step), or lock() throws std::system_error, which leaves
\* ~LogMessageObj (noexcept) and ends the process in std::terminate
Relock_throws(t) ==
  /\ ~terminated
  /\ pc[t] = "callback_ShouldLog"
  /\ impl_lock_ = t
  /\ terminated' = TRUE
  /\ UNCHANGED <<heap, logger_impl_, impl_lock_, sinks, pc, msg, op, cerr, log_state,
                 calls, nSetLevel>>

(* ------------------------------------------------------------------ *)
(* LogManager: runtime configuration                                    *)
(* ------------------------------------------------------------------ *)
\* LogManager::DisableLogForComponent(c)
LogManager_DisableLogForComponent(t, c) ==
  /\ Enter(t, [name |-> "DisableLogForComponent", arg |-> c, impl |-> NULL], "Config")
  /\ UNCHANGED <<heap, logger_impl_, sinks, msg, cerr, log_state, calls, nSetLevel, terminated>>

\* LogManager::EnableLogForComponent(c)
LogManager_EnableLogForComponent(t, c) ==
  /\ Enter(t, [name |-> "EnableLogForComponent", arg |-> c, impl |-> NULL], "Config")
  /\ UNCHANGED <<heap, logger_impl_, sinks, msg, cerr, log_state, calls, nSetLevel, terminated>>

\* LogManager::SetLogLevel(level)
LogManager_SetLogLevel(t, level) ==
  /\ nSetLevel' = nSetLevel + 1
  /\ Enter(t, [name |-> "SetLogLevel", arg |-> level, impl |-> NULL], "Config")
  /\ UNCHANGED <<heap, logger_impl_, sinks, msg, cerr, log_state, calls, terminated>>

\* the return of a manager call that is no destructor
Return(t) ==
  /\ Unlock
  /\ op' = [op EXCEPT ![t] = NoOp]
  /\ pc' = [pc EXCEPT ![t] = "idle"]

\* if(logger_impl_) of the three configuration calls
LogManager_Config(t) ==
  /\ ~terminated
  /\ pc[t] = "Config"
  /\ IF logger_impl_ # NULL
       THEN /\ op' = [op EXCEPT ![t].impl = logger_impl_]
            /\ pc' = [pc EXCEPT ![t] = "Config_impl"]
            /\ UNCHANGED impl_lock_
       ELSE Return(t)
  /\ UNCHANGED <<heap, logger_impl_, sinks, msg, cerr, log_state, calls, nSetLevel, terminated>>

\* what LoggerInterface::SetLogLevel writes to std::cerr
SetLogLevel_cerr == <<SetLogLevelTrace>>

\* logger_impl_->DisableLoggingForComponent(c) / EnableLoggingForComponent(c) /
\* SetLogLevel(level); a write through a freed sink is lost
Config_impl(t) ==
  /\ ~terminated
  /\ pc[t] = "Config_impl"
  /\ LET p == op[t].impl
         s == Deref(p)
     IN  IF ~s.alive
           THEN UNCHANGED <<sinks, cerr>>
           ELSE CASE op[t].name = "DisableLogForComponent" ->
                       /\ sinks' = [sinks EXCEPT ![p] = DisableLoggingForComponent(s, op[t].arg)]
                       /\ UNCHANGED cerr
                  [] op[t].name = "EnableLogForComponent" ->
                       /\ sinks' = [sinks EXCEPT ![p] = EnableLoggingForComponent(s, op[t].arg)]
                       /\ UNCHANGED cerr
                  [] op[t].name = "SetLogLevel" ->
                       /\ sinks' = [sinks EXCEPT ![p] = LoggerInterface_SetLogLevel(s, op[t].arg)]
                       /\ cerr' = cerr \o SetLogLevel_cerr
  /\ Return(t)
  /\ UNCHANGED <<heap, logger_impl_, msg, log_state, calls, nSetLevel, terminated>>

(* ------------------------------------------------------------------ *)
(* LogManager::SetLoggerImplementation                                  *)
(* ------------------------------------------------------------------ *)
\* (mutant) the new sink takes over the filter of the sink it replaces
SetLoggerImplementation_carry(t, sink) ==
  /\ Len(sinks) < MaxSinks
  /\ sinks' = Append(sinks,
                     IF logger_impl_ # NULL /\ Deref(logger_impl_).alive
                       THEN [sink EXCEPT
                               !.component_mask_ = Deref(logger_impl_).component_mask_,
                               !.level_threshold_ = Deref(logger_impl_).level_threshold_]
                       ELSE sink)
  /\ Enter(t, [name |-> "SetLoggerImplementation", arg |-> Len(sinks) + 1, impl |-> NULL],
           "reset_nullptr")
  /\ UNCHANGED <<heap, logger_impl_, msg, cerr, log_state, calls, nSetLevel, terminated>>

\* SetLoggerImplementation(impl) with the sink the caller has constructed
SetLoggerImplementation(t, sink) ==
  /\ Len(sinks) < MaxSinks
  /\ sinks' = Append(sinks, sink)
  /\ Enter(t, [name |-> "SetLoggerImplementation", arg |-> Len(sinks) + 1, impl |-> NULL],
           "reset_nullptr")
  /\ UNCHANGED <<heap, logger_impl_, msg, cerr, log_state, calls, nSetLevel, terminated>>

\* SetLoggerImplementation(nullptr)
SetLoggerImplementation_null(t) ==
  /\ Enter(t, [name |-> "SetLoggerImplementation", arg |-> NULL, impl |-> NULL],
           "reset_nullptr")
  /\ UNCHANGED <<heap, logger_impl_, sinks, msg, cerr, log_state, calls, nSetLevel, terminated>>

\* std::unique_ptr::reset(p): the pointer is replaced and the old sink deleted
unique_ptr_reset(p) ==
  /\ logger_impl_' = p
  /\ sinks' = IF logger_impl_ # NULL /\ logger_impl_ # p
                THEN [sinks EXCEPT ![logger_impl_] = Destroyed]
                ELSE sinks

\* logger_impl_.reset(nullptr)
reset_nullptr(t) ==
  /\ ~terminated
  /\ pc[t] = "reset_nullptr"
  /\ unique_ptr_reset(NULL)
  /\ pc' = [pc EXCEPT ![t] = "reset_impl"]
  /\ UNCHANGED <<heap, impl_lock_, msg, op, cerr, log_state, calls, nSetLevel, terminated>>

\* logger_impl_.reset(impl.release())
reset_impl(t) ==
  /\ ~terminated
  /\ pc[t] = "reset_impl"
  /\ unique_ptr_reset(op[t].arg)
  /\ Return(t)
  /\ UNCHANGED <<heap, msg, cerr, log_state, calls, nSetLevel, terminated>>

\* logger->SetCallback(callback) through the pointer the host kept of the
\* CForwardingLogger it installed (as main() of the test program keeps one)
CForwardingLogger_SetCallback(t, callback) ==
  /\ ~terminated
  /\ pc[t] = "idle"
  /\ logger_impl_ # NULL
  /\ Deref(logger_impl_).alive
  /\ Deref(logger_impl_).kind = "CForwardingLogger"
  /\ Deref(logger_impl_).callback_ # callback
  /\ sinks' = [sinks EXCEPT ![logger_impl_] = SetCallback(@, callback)]
  /\ UNCHANGED <<heap, logger_impl_, impl_lock_, pc, msg, op, cerr, log_state, calls,
                 nSetLevel, terminated>>

(* ------------------------------------------------------------------ *)
(* Specifications                                                       *)
(* ------------------------------------------------------------------ *)
\* the address the macro's "this" has at the call sites
ThisAddrs == {48879}

\* a host program with several threads: its log statements, the threshold it
\* sets, the component it switches and the sinks it installs
ConcLevels == {kWarning}
ConcThresholds == {kError}
ConcComponents == {kRPC}
ConcSinks == {SetCallback(NewCForwardingLogger, process_log_msg),
              SetCallback(NewCForwardingLogger, logging_callback)}

Next ==
  \E t \in Threads :
    \/ \E l \in ConcLevels, c \in ConcComponents : LogMessageObj_ctor(t, l, c, FALSE, NULL)
    \/ LogManager_ShouldLog(t)
    \/ ShouldLog_impl(t)
    \/ LogMessageObj_dtor(t)
    \/ LogManager_Write(t)
    \/ Write_impl(t)
    \/ Relock_throws(t)
    \/ \E c \in ConcComponents : LogManager_DisableLogForComponent(t, c)
    \/ \E c \in ConcComponents : LogManager_EnableLogForComponent(t, c)
    \/ \E l \in ConcThresholds :
         nSetLevel < MaxSetLevel /\ LogManager_SetLogLevel(t, l)
    \/ LogManager_Config(t)
    \/ Config_impl(t)
    \/ \E s \in ConcSinks : SetLoggerImplementation(t, s)
    \/ SetLoggerImplementation_null(t)
    \/ reset_nullptr(t)
    \/ reset_impl(t)

Spec == Init /\ [][Next]_vars

\* the test program (tests/logging_test.cc): one thread, every level and every
\* component
TestThread == 1

\* main() of the test program has installed a CForwardingLogger with
\* process_log_msg in place of the default StderrLogger
InitTest ==
  /\ sinks = <<Destroyed, SetCallback(NewCForwardingLogger, process_log_msg)>>
  /\ logger_impl_ = 2
  /\ impl_lock_ = NoThread
  /\ pc = [t \in Threads |-> "idle"]
  /\ msg = [t \in Threads |-> NoMsg]
  /\ op = [t \in Threads |-> NoOp]
  /\ cerr = <<>>
  /\ log_state = log_state_reset
  /\ calls = <<>>
  /\ nSetLevel = 0
  /\ terminated = FALSE
  /\ heap = NoHeap

\* reset_log_counters() (tests/logging_test.cc)
reset_log_counters(t) ==
  /\ ~terminated
  /\ pc[t] = "idle"
  /\ log_state # log_state_reset
  /\ log_state' = log_state_reset
  /\ UNCHANGED <<heap, logger_impl_, impl_lock_, sinks, pc, msg, op, cerr, calls, nSetLevel,
                 terminated>>

\* a log statement of a test, made after reset_log_counters()
TestLogStatement(t, l, c, macro, this_) ==
  /\ log_state = log_state_reset
  /\ LogMessageObj_ctor(t, l, c, macro, this_)

NextFilter ==
  \/ reset_log_counters(TestThread)
  \/ \E l \in LogLevel, c \in LogSourceComponent :
       TestLogStatement(TestThread, l, c, FALSE, NULL)
  \/ LogManager_ShouldLog(TestThread)
  \/ ShouldLog_impl(TestThread)
  \/ LogMessageObj_dtor(TestThread)
  \/ LogManager_Write(TestThread)
  \/ Write_impl(TestThread)
  \/ \E c \in LogSourceComponent : LogManager_DisableLogForComponent(TestThread, c)
  \/ \E c \in LogSourceComponent : LogManager_EnableLogForComponent(TestThread, c)
  \/ \E l \in LogLevel :
       nSetLevel < MaxSetLevel /\ LogManager_SetLogLevel(TestThread, l)
  \/ LogManager_Config(TestThread)
  \/ Config_impl(TestThread)

SpecFilter == InitTest /\ [][NextFilter]_vars

\* the log statements of the test Text and of log_all_components_at_level, in
\* both call-site forms, with every kind of operator<< argument
TextLevels == {kError}
TextComponents == {kRPC}
TextValues ==
  {CStr(""), CStr("a"), NullCStr, Str(""), Str("b"), StrPtr(4096, "c"), NullStrPtr,
   Bool(TRUE), Bool(FALSE), Int32(0 - 7), UInt32(42), Int64(0 - 123), UInt64(10),
   VoidPtr(0), VoidPtr(255)}

NextText ==
  \/ reset_log_counters(TestThread)
  \/ \E l \in TextLevels, c \in TextComponents, macro \in BOOLEAN, a \in ThisAddrs :
       TestLogStatement(TestThread, l, c, macro, a)
  \/ LogManager_ShouldLog(TestThread)
  \/ ShouldLog_impl(TestThread)
  \/ LogMessage_macro(TestThread)
  \/ \E v \in TextValues : operator_shl(TestThread, v)
  \/ LogMessageObj_dtor(TestThread)
  \/ LogManager_Write(TestThread)
  \/ Write_impl(TestThread)
  \/ \E c \in TextComponents : LogManager_DisableLogForComponent(TestThread, c)
  \/ \E c \in TextComponents : LogManager_EnableLogForComponent(TestThread, c)
  \/ LogManager_Config(TestThread)
  \/ Config_impl(TestThread)

SpecText == InitTest /\ [][NextText]_vars

\* the test Levels: log statements of one component at every level, the
\* threshold set to every level, several times in sequence
LevelsComponents == {kRPC}

NextLevels ==
  \/ reset_log_counters(TestThread)
  \/ \E l \in LogLevel, c \in LevelsComponents :
       TestLogStatement(TestThread, l, c, FALSE, NULL)
  \/ LogManager_ShouldLog(TestThread)
  \/ ShouldLog_impl(TestThread)
  \/ LogMessageObj_dtor(TestThread)
  \/ LogManager_Write(TestThread)
  \/ Write_impl(TestThread)
  \/ \E c \in LevelsComponents : LogManager_DisableLogForComponent(TestThread, c)
  \/ \E c \in LevelsComponents : LogManager_EnableLogForComponent(TestThread, c)
  \/ \E l \in LogLevel :
       nSetLevel < MaxLevelChanges /\ LogManager_SetLogLevel(TestThread, l)
  \/ LogManager_Config(TestThread)
  \/ Config_impl(TestThread)

SpecLevels == InitTest /\ [][NextLevels]_vars

\* a host program that builds sinks, configures them and installs them: a
\* StderrLogger with any choice of its four flags, a CForwardingLogger with or
\* without a callback
StderrSinks ==
  {set_show_component(set_show_thread(set_show_timestamp(set_show_level(
     NewStderrLogger, a), b), c), d) : a \in BOOLEAN, b \in BOOLEAN, c \in BOOLEAN, d \in BOOLEAN}
ForwardingSinks == {NewCForwardingLogger, SetCallback(NewCForwardingLogger, process_log_msg)}
SinkLevels == {kError}
SinkComponents == {kRPC}
SinkValues == {CStr("a")}

NextSinks ==
  \/ \E l \in SinkLevels, c \in SinkComponents :
       LogMessageObj_ctor(TestThread, l, c, FALSE, NULL)
  \/ LogManager_ShouldLog(TestThread)
  \/ ShouldLog_impl(TestThread)
  \/ \E v \in SinkValues : operator_shl(TestThread, v)
  \/ LogMessageObj_dtor(TestThread)
  \/ LogManager_Write_direct(TestThread)
  \/ LogManager_Write(TestThread)
  \/ Write_impl(TestThread)
  \/ \E c \in SinkComponents : LogManager_DisableLogForComponent(TestThread, c)
  \/ \E c \in SinkComponents : LogManager_EnableLogForComponent(TestThread, c)
  \/ LogManager_Config(TestThread)
  \/ Config_impl(TestThread)
  \/ \E s \in StderrSinks \cup ForwardingSinks : SetLoggerImplementation(TestThread, s)
  \/ reset_nullptr(TestThread)
  \/ reset_impl(TestThread)
  \/ \E callback \in {NullCallback, process_log_msg} :
       CForwardingLogger_SetCallback(TestThread, callback)

SpecSinks == Init /\ [][NextSinks]_vars

\* a host program that holds one LogData, with a text or without, copies
\* records with CopyLogData and frees the copies with FreeLogData
CopyTexts == {"", "a"}

InitCopy ==
  /\ sinks = <<NewStderrLogger>>
  /\ logger_impl_ = 1
  /\ impl_lock_ = NoThread
  /\ pc = [t \in Threads |-> "idle"]
  /\ msg = [t \in Threads |-> NoMsg]
  /\ op = [t \in Threads |-> NoOp]
  /\ cerr = <<>>
  /\ log_state = log_state_reset
  /\ calls = <<>>
  /\ nSetLevel = 0
  /\ terminated = FALSE
  /\ \E l \in LogLevel, c \in LogSourceComponent :
       \/ heap = [NoHeap EXCEPT !.recs = <<LogData(l, c, NULL)>>]
       \/ \E text \in CopyTexts :
            heap = [NoHeap EXCEPT !.recs = <<LogData(l, c, 1)>>,
                                  !.strs = <<CharArray(text)>>]

\* null and the addresses of the LogData objects
LogDataPointers == {NULL} \cup (1 .. MaxRecords)

NextCopy ==
  \/ \E orig \in LogDataPointers : CopyLogData(orig)
  \/ \E data \in LogDataPointers : FreeLogData(data)

SpecCopy == InitCopy /\ [][NextCopy]_vars

(* ------------------------------------------------------------------ *)
(* Vocabulary of the properties                                         *)
(* ------------------------------------------------------------------ *)
\* thread t is inside a LogManager operation (between GET_IMPL_LOCK and return)
InManager(t) ==
  pc[t] \in {"ShouldLog", "ShouldLog_impl", "Write", "Write_impl", "callback_ShouldLog",
             "Config", "Config_impl", "reset_nullptr", "reset_impl"}

\* thread t is inside LogManager::ShouldLog or LogManager::Write
InLogCall(t) ==
  pc[t] \in {"ShouldLog", "ShouldLog_impl", "Write", "Write_impl", "callback_ShouldLog"}

\* thread t is inside the two resets of SetLoggerImplementation
InSwap(t) == pc[t] \in {"reset_nullptr", "reset_impl"}

\* thread t is executing a member function of the sink op[t].impl
UsesSink(t) ==
  pc[t] \in {"ShouldLog_impl", "Write_impl", "Config_impl", "callback_ShouldLog"}

\* thread t holds a LogMessageObj: constructed (ShouldLog called), not yet destroyed
InFlight(t) == msg[t] # NoMsg

AliveSinks == {i \in DOMAIN sinks : sinks[i].alive}

\* a sink whose Write produces output for an accepted message
CanOutput(s) == s.kind = "StderrLogger" \/ s.callback_ # NullCallback

\* the components enabled in a sink: those whose bit is set in its mask
Enabled(s) == {c \in LogSourceComponent : \E k \in s.component_mask_ : k <= 4 /\ c = Pow2(k)}

\* the filter predicate of the specification
Accepts(s, level, component) ==
  level >= s.level_threshold_ /\ component \in Enabled(s)

(* ------------------------------------------------------------------ *)
(* C1                                                                   *)
(* ------------------------------------------------------------------ *)
\* C1: filter correctness. LogManager::ShouldLog answers true iff
\* level >= threshold and the component is enabled in the mask, whatever
\* SetLogLevel / Enable / Disable calls produced the filter; a message is
\* delivered to the callback iff it was accepted at construction; and with
\* threshold Warning and only RPC enabled exactly Warning-RPC and Error-RPC of
\* the 25 (level, component) pairs are accepted.
C1_FilterCorrectness ==
  /\ [][\A t \in Threads :
          (pc[t] = "ShouldLog_impl" /\ pc'[t] # "ShouldLog_impl")
          => msg'[t].worth_reporting_
               = Accepts(Deref(op[t].impl), msg[t].level_, msg[t].component_)]_vars
  /\ [](\A i \in DOMAIN calls :
          calls[i].done => (calls[i].out = 1 <=> calls[i].filter = "accepted"))
  /\ [](\A i \in DOMAIN sinks :
          (/\ sinks[i].alive
           /\ sinks[i].level_threshold_ = kWarning
           /\ Enabled(sinks[i]) = {kRPC})
          => {lc \in LogLevel \X LogSourceComponent :
                LoggerInterface_ShouldLog(sinks[i], lc[1], lc[2])}
             = {<<kWarning, kRPC>>, <<kError, kRPC>>})

\* threshold Warning, only RPC enabled: an Error message of another component
\* was rejected and not delivered, then an Error-RPC message was delivered
C1_Witness ==
  /\ Deref(logger_impl_).level_threshold_ = kWarning
  /\ Enabled(Deref(logger_impl_)) = {kRPC}
  /\ Len(calls) = 2
  /\ calls[1].done /\ calls[1].filter = "rejected" /\ calls[1].out = 0
  /\ calls[2].done /\ calls[2].filter = "accepted" /\ calls[2].out = 1
  /\ log_state.error_count = 1
  /\ log_state.origin_rpc = 1
  /\ log_state.origin_filesystem = 0

(* ------------------------------------------------------------------ *)
(* C2                                                                   *)
(* ------------------------------------------------------------------ *)
\* C2: the accept decision is fixed at construction. A rejected message causes
\* no Write and no output whatever the filter becomes; an accepted message is
\* handed to LogManager::Write when it is destroyed, and the active sink's Write
\* outputs it whatever the sink's filter says at that moment.
C2_DecisionFixedAtConstruction ==
  /\ [](\A i \in DOMAIN calls :
          /\ calls[i].filter = "rejected" => calls[i].Write = 0 /\ calls[i].out = 0
          /\ calls[i].filter = "accepted" /\ calls[i].done => calls[i].Write = 1)
  /\ [][\A t \in Threads :
          (/\ pc[t] = "Write_impl"
           /\ pc'[t] # "Write_impl"
           /\ Deref(op[t].impl).alive
           /\ CanOutput(Deref(op[t].impl)))
          => calls'[msg[t].id].out = calls[msg[t].id].out + 1]_vars

\* one message was output although the filter rejected it when Write ran, and
\* another, rejected at construction, is in flight while the filter accepts it
C2_Witness ==
  /\ \E i \in DOMAIN calls :
       calls[i].filter = "accepted" /\ calls[i].out = 1 /\ calls[i].at_Write = "rejected"
  /\ \E t \in Threads :
       /\ pc[t] = "operator<<"
       /\ calls[msg[t].id].filter = "rejected"
       /\ logger_impl_ # NULL
       /\ Accepts(Deref(logger_impl_), msg[t].level_, msg[t].component_)

(* ------------------------------------------------------------------ *)
(* C3                                                                   *)
(* ------------------------------------------------------------------ *)
\* C3: exactly-once dispatch. Each message calls LogManager::ShouldLog once, at
\* construction; it calls LogManager::Write at most once, only if accepted and
\* only from its destructor, and once destroyed it has called Write exactly once
\* if accepted and never if rejected; a step that appends to a message calls
\* nothing and writes nothing.
C3_ExactlyOnceDispatch ==
  /\ [](\A i \in DOMAIN calls :
          /\ calls[i].filter # "pending" => calls[i].ShouldLog = 1
          /\ calls[i].Write <= 1
          /\ calls[i].Write = 1 => calls[i].filter = "accepted"
          /\ calls[i].done =>
               calls[i].Write = (IF calls[i].filter = "accepted" THEN 1 ELSE 0))
  /\ [](\A t \in Threads :
          pc[t] \in {"ShouldLog", "ShouldLog_impl", "LogMessage", "operator<<"}
          => calls[msg[t].id].Write = 0 /\ calls[msg[t].id].out = 0)
  /\ [][\A t \in Threads :
          (pc[t] \in {"LogMessage", "operator<<"} /\ pc'[t] = "operator<<")
          => calls' = calls /\ cerr' = cerr /\ log_state' = log_state]_vars

\* an accepted message with appended text was written once and delivered, and a
\* rejected one was destroyed without a Write
C3_Witness ==
  \E i \in DOMAIN calls, j \in DOMAIN calls :
    /\ calls[i].done /\ calls[i].filter = "accepted"
    /\ calls[i].ShouldLog = 1 /\ calls[i].Write = 1 /\ calls[i].out = 1
    /\ calls[j].done /\ calls[j].filter = "rejected"
    /\ calls[j].ShouldLog = 1 /\ calls[j].Write = 0
    /\ log_state.msg # ""

(* ------------------------------------------------------------------ *)
(* C4                                                                   *)
(* ------------------------------------------------------------------ *)
\* C4: sink replacement is atomic. No thread executes a member function of a
\* destroyed sink; outside the two resets the only live sink is the installed
\* one; while a thread is between the resets no other thread is in or enters a
\* manager operation; and when SetLoggerImplementation returns the installed
\* sink is the one passed in.
C4_AtomicReplacement ==
  /\ [](\A t \in Threads : UsesSink(t) => Deref(op[t].impl).alive)
  /\ []((\A t \in Threads : ~InSwap(t)) => AliveSinks = {logger_impl_} \ {NULL})
  /\ [][\A t \in Threads :
          InSwap(t) =>
            /\ \A u \in Threads \ {t} : ~InManager(u) /\ ~InManager(u)'
            /\ (pc[t] = "reset_impl" /\ pc'[t] = "idle") =>
                 /\ logger_impl_' = op[t].arg
                 /\ op[t].arg # NULL => sinks'[op[t].arg].alive]_vars

\* a thread is between the two resets (old sink destroyed, new one not yet
\* installed) while another thread's accepted message waits to be written
C4_Witness ==
  \E t \in Threads, u \in Threads :
    /\ t # u
    /\ pc[t] = "reset_impl"
    /\ op[t].arg # NULL
    /\ logger_impl_ = NULL
    /\ pc[u] = "operator<<"
    /\ msg[u].worth_reporting_
    /\ ~Deref(calls[msg[u].id].sink).alive

(* ------------------------------------------------------------------ *)
(* C5                                                                   *)
(* ------------------------------------------------------------------ *)
\* C5 as claimed: a log call is dispatched as a whole, so two threads never
\* hold a message between its filter check and its write at the same time
C5_WholeDispatchSerialized ==
  \A t \in Threads, u \in Threads : InFlight(t) /\ InFlight(u) => t = u

\* C5 amended: the filter check and the write of a log call are each
\* serialized with those of every other call: two threads are never inside
\* LogManager::ShouldLog or LogManager::Write at the same time
C5_CheckAndWriteEachSerialized ==
  \A t \in Threads, u \in Threads : InLogCall(t) /\ InLogCall(u) => t = u

\* a later message is being written while an earlier one, already filtered,
\* has not been written yet
C5_Witness ==
  \E t \in Threads, u \in Threads :
    /\ t # u
    /\ pc[t] = "Write_impl"
    /\ pc[u] = "operator<<"
    /\ msg[u].worth_reporting_
    /\ msg[u].id < msg[t].id

(* ------------------------------------------------------------------ *)
(* C6                                                                   *)
(* ------------------------------------------------------------------ *)
\* C6: at most one thread is inside a manager operation, and it is the one that
\* holds impl_lock_
C6_MutualExclusion ==
  /\ \A t \in Threads, u \in Threads : InManager(t) /\ InManager(u) => t = u
  /\ \A t \in Threads : InManager(t) <=> impl_lock_ = t

\* a filter mutation is running on the sink while another thread's accepted
\* message is waiting for LogManager::Write
C6_Witness ==
  \E t \in Threads, u \in Threads :
    /\ t # u
    /\ pc[t] = "Config_impl"
    /\ pc[u] = "operator<<"
    /\ msg[u].worth_reporting_

(* ------------------------------------------------------------------ *)
(* C7                                                                   *)
(* ------------------------------------------------------------------ *)
\* C7 as claimed: no manager operation blocks for ever or fails, also a log
\* call issued by the forwarding callback: no thread waits at GET_IMPL_LOCK for
\* the mutex it holds itself, and the process is never terminated
C7_NoOperationBlocksForever ==
  /\ ~terminated
  /\ \A t \in Threads : ~(pc[t] = "callback_ShouldLog" /\ impl_lock_ = t)

(* ------------------------------------------------------------------ *)
(* C8                                                                   *)
(* ------------------------------------------------------------------ *)
\* C8: without a sink logging is a silent no-op. ShouldLog answers false, so the
\* message is never written nor output, also when a sink is installed before it
\* is destroyed; and as long as no sink is installed no step changes a sink,
\* std::cerr or what the callback received, nor ends the process.
C8_NoSinkIsSilentNoOp ==
  /\ [](\A i \in DOMAIN calls :
          (calls[i].sink = NULL /\ calls[i].filter # "pending")
          => calls[i].filter = "rejected" /\ calls[i].Write = 0 /\ calls[i].out = 0)
  /\ [][(logger_impl_ = NULL /\ logger_impl_' = NULL)
        => /\ \A i \in DOMAIN sinks : sinks'[i] = sinks[i]
           /\ cerr' = cerr
           /\ log_state' = log_state
           /\ terminated' = terminated]_vars

\* a message constructed without a sink is in flight and still rejected
\* although a sink that accepts its level and component has been installed since
C8_Witness ==
  \E t \in Threads :
    /\ pc[t] = "operator<<"
    /\ calls[msg[t].id].sink = NULL
    /\ calls[msg[t].id].filter = "rejected"
    /\ ~msg[t].worth_reporting_
    /\ logger_impl_ # NULL
    /\ Accepts(Deref(logger_impl_), msg[t].level_, msg[t].component_)

(* ------------------------------------------------------------------ *)
(* C9                                                                   *)
(* ------------------------------------------------------------------ *)
\* C9: lazy evaluation. A message rejected at construction keeps an empty
\* buffer and an empty MsgString() whatever is appended to it, and no step of
\* its thread up to and including its destruction changes the manager, a sink,
\* std::cerr or what the callback received.
C9_LazyEvaluation ==
  /\ [](\A t \in Threads :
          (InFlight(t) /\ calls[msg[t].id].filter = "rejected")
          => msg[t].msg_buffer_ = "" /\ MsgString(msg[t]) = "")
  /\ [][\A t \in Threads :
          (InFlight(t) /\ calls[msg[t].id].filter = "rejected" /\ msg'[t] # msg[t])
          => UNCHANGED <<logger_impl_, impl_lock_, sinks, cerr, log_state, terminated>>]_vars

\* a rejected message written with the macro has received the macro's three
\* appends and two more of different kinds
C9_Witness ==
  \E t \in Threads :
    /\ pc[t] = "operator<<"
    /\ calls[msg[t].id].filter = "rejected"
    /\ msg[t].macro
    /\ Len(msg[t].args) = 2
    /\ msg[t].args[1].kind = "const std::string&" /\ msg[t].args[1].s # ""
    /\ msg[t].args[2].kind = "int32_t"

(* ------------------------------------------------------------------ *)
(* C10                                                                  *)
(* ------------------------------------------------------------------ *)
\* a log statement in the macro form to which exactly one text value was appended
OneTextStatement(m) ==
  /\ m.macro
  /\ Len(m.args) = 1
  /\ m.args[1].kind \in {"const char*", "const std::string&"}
  /\ ~m.args[1].null

\* C10 as claimed: text round-trip. When the forwarding sink delivers such a
\* statement to process_log_msg, the text received is exactly the appended text.
C10_TextRoundTrip ==
  [][\A t \in Threads :
       (/\ pc[t] = "Write_impl"
        /\ pc'[t] = "idle"
        /\ OneTextStatement(msg[t])
        /\ Deref(op[t].impl).alive
        /\ Deref(op[t].impl).callback_ = process_log_msg)
       => log_state'.msg = msg[t].args[1].s]_vars

(* ------------------------------------------------------------------ *)
(* C11                                                                  *)
(* ------------------------------------------------------------------ *)
\* thread t's call of the sink's filter mutator named n returns in this step
ConfigStep(t, n) ==
  /\ pc[t] = "Config_impl"
  /\ op[t].name = n
  /\ pc'[t] = "idle"
  /\ Deref(op[t].impl).alive

\* the sink answers thread t's ShouldLog in this step
FilterStep(t) == pc[t] = "ShouldLog_impl" /\ pc'[t] # "ShouldLog_impl"

\* C11: full masking. A DisableLogForComponent(c) removes c from the enabled
\* components and enables nothing, so after one for each of the five components
\* with no enable since, none is enabled; a log statement made while none is
\* enabled is rejected, whatever its level and component and whatever the
\* threshold, and a rejected message is never delivered.
C11_FullMasking ==
  /\ [][\A t \in Threads :
          ConfigStep(t, "DisableLogForComponent")
          => Enabled(sinks'[op[t].impl]) = Enabled(sinks[op[t].impl]) \ {op[t].arg}]_vars
  /\ [][\A t \in Threads :
          (FilterStep(t) /\ Enabled(Deref(op[t].impl)) = {})
          => /\ ~msg'[t].worth_reporting_
             /\ calls'[msg[t].id].filter = "rejected"]_vars
  /\ [](\A i \in DOMAIN calls :
          calls[i].filter = "rejected" => calls[i].Write = 0 /\ calls[i].out = 0)

\* all five components are disabled, the threshold is Trace and has never been
\* set, and a log statement made in that state was rejected; nothing was delivered
C11_Witness ==
  /\ Enabled(Deref(logger_impl_)) = {}
  /\ Deref(logger_impl_).level_threshold_ = kTrace
  /\ nSetLevel = 0
  /\ pc[TestThread] = "operator<<"
  /\ ~msg[TestThread].worth_reporting_
  /\ calls[msg[TestThread].id].filter = "rejected"
  /\ log_state = log_state_reset

(* ------------------------------------------------------------------ *)
(* C12                                                                  *)
(* ------------------------------------------------------------------ *)
\* the delivery count of the test program for component c
OriginCount(st, c) ==
  CASE c = kUnknown -> st.origin_unknown
    [] c = kRPC -> st.origin_rpc
    [] c = kBlockReader -> st.origin_blockreader
    [] c = kFileHandle -> st.origin_filehandle
    [] c = kFileSystem -> st.origin_filesystem

\* C12: single-component isolation. When exactly one component is enabled, a
\* log statement at a level that passes the threshold is accepted iff it is
\* tagged with that component; an accepted message is delivered once, a rejected
\* one never; and a delivery raises the count of the message's own component by
\* one and no other count.
C12_SingleComponentIsolation ==
  /\ [][\A t \in Threads :
          (/\ FilterStep(t)
           /\ Cardinality(Enabled(Deref(op[t].impl))) = 1
           /\ msg[t].level_ >= Deref(op[t].impl).level_threshold_)
          => msg'[t].worth_reporting_
               = (Enabled(Deref(op[t].impl)) = {msg[t].component_})]_vars
  /\ [](\A i \in DOMAIN calls :
          calls[i].done => calls[i].out = (IF calls[i].filter = "accepted" THEN 1 ELSE 0))
  /\ [][\A t \in Threads :
          (pc[t] = "Write_impl" /\ pc'[t] = "idle")
          => \A c \in LogSourceComponent :
               OriginCount(log_state', c)
                 = OriginCount(log_state, c) + (IF c = msg[t].component_ THEN 1 ELSE 0)]_vars

\* only FileHandle is enabled and the threshold was never set: one log statement
\* was rejected, a later one was delivered and counted for FileHandle alone
C12_Witness ==
  /\ Enabled(Deref(logger_impl_)) = {kFileHandle}
  /\ nSetLevel = 0
  /\ Len(calls) = 2
  /\ calls[1].done /\ calls[1].filter = "rejected" /\ calls[1].out = 0
  /\ calls[2].done /\ calls[2].filter = "accepted" /\ calls[2].out = 1
  /\ \A c \in LogSourceComponent :
       OriginCount(log_state, c) = (IF c = kFileHandle THEN 1 ELSE 0)

(* ------------------------------------------------------------------ *)
(* C13                                                                  *)
(* ------------------------------------------------------------------ *)
\* C13: level monotonicity. SetLogLevel(L) makes L the threshold of the active
\* sink and nothing else changes a threshold, so the most recent call decides;
\* a log statement whose component is enabled is accepted iff its level is at
\* least the threshold; an accepted message is delivered once and a rejected
\* one never.
C13_LevelMonotonicity ==
  /\ [][\A t \in Threads :
          ConfigStep(t, "SetLogLevel")
          => sinks'[op[t].impl].level_threshold_ = op[t].arg]_vars
  /\ [][\A i \in DOMAIN sinks :
          (/\ sinks[i].alive
           /\ sinks'[i].alive
           /\ sinks'[i].level_threshold_ # sinks[i].level_threshold_)
          => \E t \in Threads : ConfigStep(t, "SetLogLevel") /\ op[t].impl = i]_vars
  /\ [][\A t \in Threads :
          (FilterStep(t) /\ msg[t].component_ \in Enabled(Deref(op[t].impl)))
          => msg'[t].worth_reporting_
               = (msg[t].level_ >= Deref(op[t].impl).level_threshold_)]_vars
  /\ [](\A i \in DOMAIN calls :
          calls[i].done => (calls[i].filter = "accepted" <=> calls[i].out > 0))

\* the threshold was set twice and is now Info with RPC enabled: a
\* log statement made before was rejected, and an Info message made under the
\* second threshold was delivered
C13_Witness ==
  /\ nSetLevel = 2
  /\ Len(cerr) = 2
  /\ Deref(logger_impl_).level_threshold_ = kInfo
  /\ kRPC \in Enabled(Deref(logger_impl_))
  /\ Len(calls) = 2
  /\ calls[1].done /\ calls[1].filter = "rejected"
  /\ calls[2].done /\ calls[2].filter = "accepted" /\ calls[2].out = 1
  /\ log_state.info_count = 1

(* ------------------------------------------------------------------ *)
(* C14                                                                  *)
(* ------------------------------------------------------------------ *)
\* thread t's call of the sink's Write returns in this step
WriteStep(t, kind) ==
  /\ pc[t] = "Write_impl"
  /\ pc'[t] # "Write_impl"
  /\ Deref(op[t].impl).alive
  /\ Deref(op[t].impl).kind = kind

\* the line of a console sink in which each field is shown under its own flag
LineByOwnFlags(s, m, t) ==
  (IF s.show_level_ THEN level_string(m) ELSE "")
  \o (IF s.show_component_ THEN component_string(m) ELSE "")
  \o (IF s.show_timestamp_ THEN TimestampField(AscTime) ELSE "")
  \o (IF s.show_thread_ THEN "[Thread id = " \o DecNat(t) \o "]" ELSE "")
  \o "    " \o MsgString(m)

\* C14 as claimed: the line StderrLogger::Write produces for an accepted message
\* has the level tag, the component tag, the timestamp and the thread identifier
\* each iff its own flag is set, for every combination of the four flags
C14_FieldsIndependentlyToggleable ==
  [][\A t \in Threads :
       (WriteStep(t, "StderrLogger") /\ msg[t].worth_reporting_)
       => cerr' = Append(cerr, LineByOwnFlags(Deref(op[t].impl), msg[t], t))]_vars

(* ------------------------------------------------------------------ *)
(* C15                                                                  *)
(* ------------------------------------------------------------------ *)
\* the delivery count of the test program for level l
LevelCount(st, l) ==
  CASE l = kTrace -> st.trace_count
    [] l = kDebug -> st.debug_count
    [] l = kInfo -> st.info_count
    [] l = kWarning -> st.warning_count
    [] l = kError -> st.error_count

\* C15: the forwarding sink. Its Write on an accepted message, with the callback
\* process_log_msg set, invokes the callback once with the message's level,
\* component and accumulated text (one more delivery of that level and of that
\* component, none of another, the text received is the buffer) and writes
\* nothing to std::cerr; with a null callback Write returns having changed
\* nothing: no output, no sink or manager state, no termination.
C15_CallbackForwarding ==
  /\ [][\A t \in Threads :
          (/\ WriteStep(t, "CForwardingLogger")
           /\ msg[t].worth_reporting_
           /\ Deref(op[t].impl).callback_ = process_log_msg)
          => /\ pc'[t] = "idle"
             /\ log_state'.msg = msg[t].msg_buffer_
             /\ \A l \in LogLevel :
                  LevelCount(log_state', l)
                    = LevelCount(log_state, l) + (IF l = msg[t].level_ THEN 1 ELSE 0)
             /\ \A c \in LogSourceComponent :
                  OriginCount(log_state', c)
                    = OriginCount(log_state, c) + (IF c = msg[t].component_ THEN 1 ELSE 0)
             /\ calls'[msg[t].id].out = calls[msg[t].id].out + 1
             /\ cerr' = cerr]_vars
  /\ [][\A t \in Threads :
          (/\ WriteStep(t, "CForwardingLogger")
           /\ Deref(op[t].impl).callback_ = NullCallback)
          => /\ pc'[t] = "idle"
             /\ calls'[msg[t].id].out = calls[msg[t].id].out
             /\ UNCHANGED <<logger_impl_, sinks, cerr, log_state, terminated>>]_vars

\* the forwarding sink delivered one accepted message with its text to the
\* callback; then the callback was cleared, and the next accepted message went
\* through Write without being delivered
C15_Witness ==
  /\ logger_impl_ # NULL
  /\ Deref(logger_impl_).kind = "CForwardingLogger"
  /\ Deref(logger_impl_).callback_ = NullCallback
  /\ Len(calls) = 2
  /\ calls[1].done /\ calls[1].sink = logger_impl_ /\ calls[1].Write = 1 /\ calls[1].out = 1
  /\ calls[2].done /\ calls[2].sink = logger_impl_ /\ calls[2].Write = 1 /\ calls[2].out = 0
  /\ log_state.msg = "aa"
  /\ log_state.error_count = 1
  /\ log_state.origin_rpc = 1
  /\ cerr = <<>>

(* ------------------------------------------------------------------ *)
(* C16                                                                  *)
(* ------------------------------------------------------------------ *)
\* C16 as claimed: CopyLogData returns null when its argument is null and when
\* an allocation it makes fails, and a record it returns has a text whenever the
\* original has one
C16_NullResultOnFailure ==
  heap.last.called =>
    /\ heap.last.orig = NULL => heap.last.result = NULL
    /\ heap.last.failed => heap.last.result = NULL
    /\ (/\ heap.last.result # NULL
        /\ heap.recs[heap.last.result].alive
        /\ heap.recs[heap.last.orig].alive
        /\ heap.recs[heap.last.orig].msg # NULL)
       => heap.recs[heap.last.result].msg # NULL

(* ------------------------------------------------------------------ *)
(* C17                                                                  *)
(* ------------------------------------------------------------------ *)
\* CopyLogData returns a record in this step, every allocation having succeeded
CopyStep ==
  /\ Len(heap'.recs) = Len(heap.recs) + 1
  /\ ~heap'.last.failed

\* FreeLogData is called in this step
FreeStep == heap'.frees = heap.frees + 1

\* record r and its text are in h2 what they are in h1
SameRecord(h1, h2, r) ==
  /\ h2.recs[r] = h1.recs[r]
  /\ h1.recs[r].msg # NULL => h2.strs[h1.recs[r].msg] = h1.strs[h1.recs[r].msg]

\* C17 as claimed: a successful CopyLogData(r) gives a record in storage of its
\* own with r's level, r's component and r's text (no text if r has none) and
\* leaves r as it is; FreeLogData of a copy leaves every other record and its
\* text as they are and ends normally; FreeLogData(null) changes nothing
C17_CopyFreeSymmetry ==
  /\ [][CopyStep =>
          LET r == heap'.last.orig
              copy == heap'.last.result
          IN  /\ copy \notin DOMAIN heap.recs
              /\ heap'.recs[copy].alive
              /\ heap'.recs[copy].level = heap.recs[r].level
              /\ heap'.recs[copy].component = heap.recs[r].component
              /\ IF heap.recs[r].msg = NULL
                   THEN heap'.recs[copy].msg = NULL
                   ELSE /\ ValidText(heap', heap'.recs[copy].msg)
                        /\ heap'.recs[copy].msg # heap.recs[r].msg
                        /\ heap'.strs[heap'.recs[copy].msg].s = heap.strs[heap.recs[r].msg].s
              /\ SameRecord(heap, heap', r)]_vars
  /\ [][FreeStep =>
          /\ terminated' = terminated
          /\ \A r \in DOMAIN heap.recs :
               (heap.recs[r].alive /\ r # heap'.freed) => SameRecord(heap, heap', r)
          /\ heap'.freed = NULL => heap'.recs = heap.recs /\ heap'.strs = heap.strs]_vars

(* ------------------------------------------------------------------ *)
(* C18                                                                  *)
(* ------------------------------------------------------------------ *)
\* the position of component c's bit in the mask
Bit(c) == CHOOSE k \in 0 .. 4 : Pow2(k) = c

\* the filter of sink s: its mask and its threshold
Filter(s) == <<s.component_mask_, s.level_threshold_>>

\* C18: runtime configuration is exact and immediate. Enable sets the bit of c
\* in the active sink's mask, Disable clears it, SetLogLevel replaces the
\* threshold, and each leaves everything else of the sink as it is (so a repeated
\* enable or disable changes nothing); the sink's two mutators do so for each of
\* the five components on every sink state the configuration calls reach; a
\* sink's filter changes in no other step; and a ShouldLog of any thread
\* answers by the filter as it is when it runs under the lock.
C18_ConfigurationExactAndImmediate ==
  /\ [][\A t \in Threads :
          LET s == sinks[op[t].impl]
          IN  /\ ConfigStep(t, "EnableLogForComponent")
                 => /\ sinks'[op[t].impl]
                         = [s EXCEPT !.component_mask_ = @ \cup {Bit(op[t].arg)}]
                    /\ Bit(op[t].arg) \in s.component_mask_ => sinks' = sinks
              /\ ConfigStep(t, "DisableLogForComponent")
                 => /\ sinks'[op[t].impl]
                         = [s EXCEPT !.component_mask_ = @ \ {Bit(op[t].arg)}]
                    /\ Bit(op[t].arg) \notin s.component_mask_ => sinks' = sinks
              /\ ConfigStep(t, "SetLogLevel")
                 => sinks'[op[t].impl] = [s EXCEPT !.level_threshold_ = op[t].arg]]_vars
  /\ [](calls = <<>> =>
          \A i \in DOMAIN sinks, c \in LogSourceComponent :
            sinks[i].alive =>
              /\ EnableLoggingForComponent(sinks[i], c)
                   = [sinks[i] EXCEPT !.component_mask_ = @ \cup {Bit(c)}]
              /\ DisableLoggingForComponent(sinks[i], c)
                   = [sinks[i] EXCEPT !.component_mask_ = @ \ {Bit(c)}])
  /\ [][\A i \in DOMAIN sinks :
          (sinks[i].alive /\ sinks'[i].alive /\ Filter(sinks'[i]) # Filter(sinks[i]))
          => \E t \in Threads : pc[t] = "Config_impl" /\ pc'[t] = "idle" /\ op[t].impl = i]_vars
  /\ [][\A t \in Threads :
          FilterStep(t)
          => /\ impl_lock_ = t
             /\ msg'[t].worth_reporting_
                  = Accepts(Deref(op[t].impl), msg[t].level_, msg[t].component_)]_vars

\* one thread's log statement was rejected by the sink because another thread
\* had disabled its component (the threshold was never set), while the other
\* thread is inside the call that enables the component again
C18_Witness ==
  \E t \in Threads, u \in Threads :
    /\ t # u
    /\ pc[t] = "operator<<"
    /\ calls[msg[t].id].filter = "rejected"
    /\ calls[msg[t].id].sink = logger_impl_
    /\ nSetLevel = 0
    /\ logger_impl_ # NULL
    /\ msg[t].component_ \notin Enabled(Deref(logger_impl_))
    /\ pc[u] = "Config_impl"
    /\ op[u].name = "EnableLogForComponent"
    /\ op[u].arg = msg[t].component_

(* ------------------------------------------------------------------ *)
(* C19                                                                  *)
(* ------------------------------------------------------------------ *)
\* C19 as claimed: output happens only in the sink's Write. A step that adds to
\* std::cerr or invokes the callback is the sink's Write of a message; the
\* other manager operations write nothing.
C19_OutputOnlyInWrite ==
  [][(cerr' # cerr \/ log_state' # log_state)
     => \E t \in Threads : pc[t] = "Write_impl" /\ InFlight(t)]_vars

(* ------------------------------------------------------------------ *)
(* C20                                                                  *)
(* ------------------------------------------------------------------ *)
\* the three text-like kinds of operator<< argument
TextLike(v) == v.kind \in {"const char*", "const std::string&", "const std::string*"}

\* C20 as claimed: text-like appends print as-is. On an accepted message, the
\* append of a C string, a string or a pointer to a string adds exactly the
\* characters of that string to the text, and a null pointer adds nothing.
C20_TextAppendsPrintAsIs ==
  [][\A t \in Threads :
       (/\ pc[t] = "operator<<"
        /\ pc'[t] = "operator<<"
        /\ msg[t].worth_reporting_
        /\ Len(msg'[t].args) = Len(msg[t].args) + 1
        /\ TextLike(msg'[t].args[Len(msg'[t].args)]))
       => LET v == msg'[t].args[Len(msg'[t].args)]
          IN  msg'[t].msg_buffer_ = msg[t].msg_buffer_ \o (IF v.null THEN "" ELSE v.s)]_vars

(* ------------------------------------------------------------------ *)
(* C21                                                                  *)
(* ------------------------------------------------------------------ *)
\* the filter of a LoggerInterface as constructed: every bit set, threshold Trace
FreshFilter == <<AllBits, kTrace>>

\* C21: the filter belongs to the sink and is not carried across a replacement.
\* The default sink of the initial state and every sink the host builds have
\* the filter of a fresh sink and accept all 25 (level, component) pairs; when
\* SetLoggerImplementation(s) returns, s is the active sink and is as the caller
\* built it, with a fresh filter, whatever SetLogLevel and
\* DisableLogForComponent calls were made before; and ShouldLog answers by the
\* threshold and the mask of the active sink.
C21_FilterBelongsToSink ==
  /\ \A s \in {Deref(logger_impl_)} \cup ConcSinks :
       /\ Filter(s) = FreshFilter
       /\ \A l \in LogLevel, c \in LogSourceComponent : LoggerInterface_ShouldLog(s, l, c)
  /\ [][\A t \in Threads :
          (pc[t] = "reset_impl" /\ pc'[t] = "idle" /\ op[t].arg # NULL)
          => /\ logger_impl_' = op[t].arg
             /\ sinks'[op[t].arg] = sinks[op[t].arg]
             /\ sinks'[op[t].arg] \in ConcSinks
             /\ Filter(sinks'[op[t].arg]) = FreshFilter]_vars
  /\ [][\A t \in Threads :
          FilterStep(t)
          => /\ op[t].impl = logger_impl_
             /\ msg'[t].worth_reporting_
                  = (/\ msg[t].level_ >= Deref(logger_impl_).level_threshold_
                     /\ Bit(msg[t].component_) \in Deref(logger_impl_).component_mask_)]_vars

\* the threshold of the default sink was raised to Error (the line SetLogLevel
\* prints is on std::cerr) and that sink rejected a Warning-RPC message; then
\* the sink was replaced, and the new sink, with a fresh filter, accepted one
C21_Witness ==
  /\ nSetLevel = 1
  /\ cerr = <<SetLogLevelTrace>>
  /\ logger_impl_ = 2
  /\ sinks[1] = Destroyed
  /\ Filter(sinks[2]) = FreshFilter
  /\ \A t \in Threads : ~InManager(t)
  /\ \E i \in DOMAIN calls :
       /\ calls[i].sink = 1 /\ calls[i].filter = "rejected"
  /\ \E i \in DOMAIN calls :
       /\ calls[i].sink = 2 /\ calls[i].filter = "accepted"

C23_DeliveredToActiveSink ==
  /\ [][\A t \in Threads :
          (pc[t] = "Write" /\ pc'[t] # "Write")
          => IF logger_impl_ = NULL
               THEN /\ pc'[t] = "idle"
                    /\ calls'[msg[t].id] = [calls[msg[t].id] EXCEPT !.done = TRUE]
                    /\ UNCHANGED <<logger_impl_, sinks, cerr, log_state, terminated>>
               ELSE /\ pc'[t] = "Write_impl"
                    /\ op'[t].impl = logger_impl_]_vars
  /\ [](\A t \in Threads :
          pc[t] = "Write_impl"
          => /\ op[t].impl = logger_impl_
             /\ Deref(logger_impl_).alive
             /\ calls[msg[t].id].sink # logger_impl_
                  => ~Deref(calls[msg[t].id].sink).alive)
  /\ [][\A t \in Threads :
          (/\ pc[t] = "Write_impl"
           /\ pc'[t] # "Write_impl"
           /\ calls[msg[t].id].sink # op[t].impl
           /\ CanOutput(Deref(op[t].impl)))
          => /\ calls'[msg[t].id].out = 1
             /\ sinks' = sinks
             /\ Deref(op[t].impl).callback_ = process_log_msg
                  => log_state' = process_log_msg_fn(log_state,
                                    [level |-> msg[t].level_,
                                     component |-> msg[t].component_,
                                     msg |-> MsgString(msg[t])])]_vars

\* a message accepted by the default StderrLogger was destroyed after the sink
\* had been replaced and the new sink's filter changed so that it rejects the
\* message: the new sink's callback received it all the same and std::cerr is
\* empty; a second message, accepted by the new sink, was destroyed after the
\* sink had been replaced by none, and was dropped
C23_Witness ==
  /\ Len(calls) = 2
  /\ Len(sinks) = 2
  /\ logger_impl_ = NULL
  /\ sinks[1] = Destroyed
  /\ sinks[2] = Destroyed
  /\ \A i \in {1, 2} :
       /\ calls[i].sink = i
       /\ calls[i].filter = "accepted"
       /\ calls[i].done
       /\ calls[i].Write = 1
  /\ calls[1].out = 1
  /\ calls[1].at_Write = "rejected"
  /\ calls[2].out = 0
  /\ calls[2].at_Write = "none"
  /\ cerr = <<>>
  /\ log_state.warning_count = 1
  /\ log_state.origin_rpc = 1

====
